---- MODULE Spec2Model ----
(***************************************************************************)
(* A model of odx (src/src/main.rs): a wrapper that runs a child command   *)
(* inside a telemetry transaction.  The state is the wrapper process: its  *)
(* environment and arguments, the locals of main, the Guard, the telemetry *)
(* client / transaction / scope / captured messages, the spawned child and *)
(* the wrapper's own termination.                                          *)
(*                                                                         *)
(* Strings are sequences of one-character strings.  Option<T> is a         *)
(* sequence of length at most one: None == <<>>, Some(x) == <<x>>.         *)
(***************************************************************************)
EXTENDS Integers, Sequences, FiniteSets, TLC

VARIABLES
    pc,         \* position of the main thread
    debug,      \* cfg!(debug_assertions) of the build
    env,        \* the wrapper's environment
    argv,       \* env::args().skip(1)
    program,    \* main: program
    args,       \* main: args
    cmd,        \* Guard::new: cmd (the command label)
    err,        \* the Err(e) Guard::new returned, if any
    client,     \* ClientInitGuard: "none", "open", "closed"
    handler,    \* whether ctrlc::set_handler installed the no-op handler
    txn,        \* the telemetry transaction
    scope,      \* the ambient telemetry scope
    guard,      \* the Guard value
    messages,   \* sentry::capture_message calls, in order
    stderr,     \* what main wrote to standard error
    child,      \* the spawned child: program, args, environment
    spawns,     \* number of Command::status calls, per arm of main
    status,     \* the ExitStatus the child terminated with
    finished,   \* the ExitStatus values passed to Guard::finish, in order
    wrapperExit,\* the wrapper's own exit status once it terminated
    depth,      \* how many wrappers are above this one in the process tree
    parent,     \* the trace id of the parent wrapper's session, if it had one
    generated,  \* the identifier TraceId::default() returned, if it was called
    interrupted \* whether an interrupt signal has been delivered to the wrapper

vars == <<pc, debug, env, argv, program, args, cmd, err, client, handler, txn,
          scope, guard, messages, stderr, child, spawns, status, finished,
          wrapperExit, depth, parent, generated, interrupted>>

-----------------------------------------------------------------------------
(* Option<T> *)

None == <<>>

Some(x) == <<x>>

IsSome(o) == o # <<>>

Unwrap(o) == o[1]

-----------------------------------------------------------------------------
(* Bounds and input samples *)

\* longest program path drawn
MaxPathLen == 2

\* largest exit code the child is drawn to exit with
MaxCode == 2

\* deepest chain of nested wrappers followed
MaxDepth == 2

\* longest program path whose basename is computed on its own
MaxBaseLen == 4

\* exit status of a Rust process whose main thread panicked
PanicExitCode == 101

\* exit status of a Rust process whose main returned
ReturnExitCode == 0

\* number of bytes of a TraceId ([u8; 16])
TraceIdBytes == 16

Rep(c, n) == [i \in 1..n |-> c]

RECURSIVE SeqsUpTo(_, _)
SeqsUpTo(S, n) ==
    IF n = 0 THEN {<<>>}
    ELSE LET shorter == SeqsUpTo(S, n - 1)
         IN  shorter \cup {Append(s, c) : s \in {t \in shorter : Len(t) = n - 1}, c \in S}

PathChars == {"/", "e"}

Paths == SeqsUpTo(PathChars, MaxPathLen)

ArgLists == {<<>>, <<<<"h", "i">>>>, <<<<"h", "i">>, <<"y", "o">>>>}

Signals == {2, 9}

ExitStatuses ==
    {[kind |-> "exited", n |-> c] : c \in 0..MaxCode}
        \cup {[kind |-> "signaled", n |-> s] : s \in Signals}

DsnValues == {None, Some(<<"d", "s", "n">>)}

UserValues == {None, Some(<<"u">>)}

\* the byte values the sampled trace identifiers are filled with
FreshBytes == {170, 27}

FreshIds == {Rep(b, TraceIdBytes) : b \in FreshBytes}

InboundTraceValues ==
    { None,
      Some(<<>>),
      Some(Rep("a", 2 * TraceIdBytes)),
      Some(Rep("A", 2 * TraceIdBytes)),
      Some(Rep("a", 2 * TraceIdBytes - 1)),
      Some(Rep("a", 2 * TraceIdBytes + 1)),
      Some(Append(Rep("a", 2 * TraceIdBytes - 1), "g")) }

-----------------------------------------------------------------------------
(* ExitStatus (std::process::ExitStatus on Unix) *)

\* ExitStatus::code
Code(s) == IF s.kind = "exited" THEN Some(s.n) ELSE None

\* a slip of ExitStatus::success: any normal exit counts as success
SuccessAnyCode(s) == s.kind = "exited"

\* ExitStatus::success
Success(s) == s.kind = "exited" /\ s.n = 0

\* Display for ExitStatus
Display(s) ==
    IF s.kind = "exited"
    THEN [prefix |-> "exit status: ", n |-> s.n]
    ELSE [prefix |-> "signal: ", n |-> s.n]

-----------------------------------------------------------------------------
(* TraceId: parsing and serialisation (hex, 2 digits per byte) *)

HexLower == <<"0", "1", "2", "3", "4", "5", "6", "7", "8", "9",
              "a", "b", "c", "d", "e", "f">>

HexUpper == <<"0", "1", "2", "3", "4", "5", "6", "7", "8", "9",
              "A", "B", "C", "D", "E", "F">>

IsHex(c) == \E i \in 1..16 : HexLower[i] = c \/ HexUpper[i] = c

HexVal(c) == (CHOOSE i \in 1..16 : HexLower[i] = c \/ HexUpper[i] = c) - 1

\* TraceId::from_str
ParseTraceId(s) ==
    IF Len(s) = 2 * TraceIdBytes /\ \A i \in 1..Len(s) : IsHex(s[i])
    THEN Some([i \in 1..TraceIdBytes |-> 16 * HexVal(s[2 * i - 1]) + HexVal(s[2 * i])])
    ELSE None

\* a slip of TraceId::to_string: the two digits of each byte in the wrong order
SerializeTraceIdSwapped(id) ==
    [i \in 1..(2 * Len(id)) |->
        IF i % 2 = 1 THEN HexLower[(id[(i + 1) \div 2] % 16) + 1]
                     ELSE HexLower[(id[i \div 2] \div 16) + 1]]

\* TraceId::to_string
SerializeTraceId(id) ==
    [i \in 1..(2 * Len(id)) |->
        IF i % 2 = 1 THEN HexLower[(id[(i + 1) \div 2] \div 16) + 1]
                     ELSE HexLower[(id[i \div 2] % 16) + 1]]

-----------------------------------------------------------------------------
(* Free functions of main.rs *)

\* dsn(): the key depends on the build
DsnKey == IF debug THEN "ODX_SANDBOX_DSN" ELSE "ODX_DSN"

dsn == env[DsnKey]

TRACE_ID_KEY == "ODX_TRACE_ID"

\* trace_id(): None when the variable is absent or does not parse
trace_id == IF IsSome(env[TRACE_ID_KEY]) THEN ParseTraceId(Unwrap(env[TRACE_ID_KEY])) ELSE None

\* path.rsplit('/').next(): scan from the end to the last '/'
RECURSIVE RSplitFirst(_, _)
RSplitFirst(path, i) ==
    IF i = 0 THEN path
    ELSE IF path[i] = "/" THEN SubSeq(path, i + 1, Len(path))
    ELSE RSplitFirst(path, i - 1)

\* a slip of lines 29-31: split instead of rsplit, the text before the first '/'
SplitFirst(path) ==
    IF \E i \in 1..Len(path) : path[i] = "/"
    THEN SubSeq(path, 1, (CHOOSE i \in 1..Len(path) :
                            path[i] = "/" /\ \A j \in 1..(i - 1) : path[j] # "/") - 1)
    ELSE path

basename(path) == RSplitFirst(path, Len(path))

\* args.join(" ")
RECURSIVE Join(_)
Join(a) ==
    IF Len(a) = 0 THEN <<>>
    ELSE IF Len(a) = 1 THEN a[1]
    ELSE a[1] \o <<" ">> \o Join(Tail(a))

\* format!("{program} {}", args.join(" "))
Label(prog, a) == basename(prog) \o <<" ">> \o Join(a)

-----------------------------------------------------------------------------
(* Initial state *)

NoTxn == [started |-> FALSE, name |-> <<>>, op |-> "", trace_id |-> None,
          status |-> "unset", finishes |-> 0]

NoGuard == [created |-> FALSE, live |-> FALSE, transaction |-> FALSE,
            trace_id |-> None, cmd |-> <<>>]

Envs ==
    { [k \in {"ODX_SANDBOX_DSN", "ODX_DSN", "ODX_TRACE_ID", "USER"} |->
          CASE k = "ODX_SANDBOX_DSN" -> sd
            [] k = "ODX_DSN" -> pd
            [] k = "ODX_TRACE_ID" -> t
            [] OTHER -> u]
      : sd \in DsnValues, pd \in DsnValues, t \in InboundTraceValues, u \in UserValues }

Argvs == {<<>>} \cup {<<p>> \o a : p \in Paths, a \in ArgLists}

Init ==
    /\ pc = "main"
    /\ debug \in BOOLEAN
    /\ env \in Envs
    /\ argv \in Argvs
    /\ program = <<>>
    /\ args = <<>>
    /\ cmd = <<>>
    /\ err = None
    /\ client = "none"
    /\ handler = FALSE
    /\ txn = NoTxn
    /\ scope = [span |-> FALSE, user |-> None]
    /\ guard = NoGuard
    /\ messages = <<>>
    /\ stderr = <<>>
    /\ child = None
    /\ spawns = [ok |-> 0, err |-> 0]
    /\ status = None
    /\ finished = <<>>
    /\ wrapperExit = None
    /\ depth = 0
    /\ parent = None
    /\ generated = None
    /\ interrupted = FALSE

-----------------------------------------------------------------------------
(* main, lines 106-108: the program and its arguments *)

ParseArgs ==
    /\ pc = "main"
    /\ IF Len(argv) = 0
       THEN \* args.next().unwrap() panics; nothing is alive to unwind
            /\ pc' = "panicked"
            /\ wrapperExit' = Some(PanicExitCode)
            /\ UNCHANGED <<program, args>>
       ELSE /\ program' = Head(argv)
            /\ args' = Tail(argv)
            /\ pc' = "new_label"
            /\ UNCHANGED wrapperExit
    /\ UNCHANGED <<debug, env, argv, cmd, err, client, handler, txn, scope, guard,
                   messages, stderr, child, spawns, status, finished, depth, parent,
                   generated, interrupted>>

-----------------------------------------------------------------------------
(* Guard::new, lines 42-78 *)

\* lines 43-44: the command label
NewLabel ==
    /\ pc = "new_label"
    /\ cmd' = Label(program, args)
    /\ pc' = "new_init"
    /\ UNCHANGED <<debug, env, argv, program, args, err, client, handler, txn, scope,
                   guard, messages, stderr, child, spawns, status, finished,
                   wrapperExit, depth, parent, generated, interrupted>>

\* a slip of lines 46-59: the transaction is started right after sentry::init,
\* without the handler of line 55 installed first
NewInitThenTransaction ==
    /\ pc = "new_init"
    /\ IF IsSome(dsn)
       THEN /\ client' = "open"
            /\ pc' = "new_txn"
            /\ UNCHANGED err
       ELSE /\ err' = Some("VarError::NotPresent")
            /\ pc' = "main_err"
            /\ UNCHANGED client
    /\ UNCHANGED <<debug, env, argv, program, args, cmd, handler, txn, scope, guard,
                   messages, stderr, child, spawns, status, finished, wrapperExit,
                   depth, parent, generated, interrupted>>

\* lines 46-53: dsn()? is evaluated first; without it sentry::init is not called
NewInit ==
    /\ pc = "new_init"
    /\ IF IsSome(dsn)
       THEN /\ client' = "open"
            /\ pc' = "new_handler"
            /\ UNCHANGED err
       ELSE /\ err' = Some("VarError::NotPresent")
            /\ pc' = "main_err"
            /\ UNCHANGED client
    /\ UNCHANGED <<debug, env, argv, program, args, cmd, handler, txn, scope, guard,
                   messages, stderr, child, spawns, status, finished, wrapperExit,
                   depth, parent, generated, interrupted>>

\* line 55, success: the no-op handler is installed
NewHandlerOk ==
    /\ pc = "new_handler"
    /\ handler' = TRUE
    /\ pc' = "new_txn"
    /\ UNCHANGED <<debug, env, argv, program, args, cmd, err, client, txn, scope,
                   guard, messages, stderr, child, spawns, status, finished,
                   wrapperExit, depth, parent, generated, interrupted>>

\* a slip of line 55: the error of set_handler is ignored and creation goes on
NewHandlerErrIgnored ==
    /\ pc = "new_handler"
    /\ pc' = "new_txn"
    /\ UNCHANGED <<debug, env, argv, program, args, cmd, err, client, handler, txn,
                   scope, guard, messages, stderr, child, spawns, status, finished,
                   wrapperExit, depth, parent, generated, interrupted>>

\* line 55, failure: `?` returns the error and drops client_init_guard
NewHandlerErr ==
    /\ pc = "new_handler"
    /\ err' = Some("ctrlc::Error")
    /\ client' = "closed"
    /\ pc' = "main_err"
    /\ UNCHANGED <<debug, env, argv, program, args, cmd, handler, txn, scope, guard,
                   messages, stderr, child, spawns, status, finished, wrapperExit,
                   depth, parent, generated, interrupted>>

\* a slip of line 57: the fallback is the nil identifier, not a generated one
ResolveTraceIdNil(fresh) ==
    IF IsSome(trace_id) THEN Unwrap(trace_id) ELSE Rep(0, TraceIdBytes)

\* line 57: trace_id().unwrap_or_default(); TraceId::default() is random
ResolveTraceId(fresh) == IF IsSome(trace_id) THEN Unwrap(trace_id) ELSE fresh

\* lines 57-59: the transaction is started with the label and the trace id; the
\* local trace_id is kept in guard.trace_id, where line 75 moves it
NewStartTransaction ==
    /\ pc = "new_txn"
    /\ \E fresh \in FreshIds :
          /\ txn' = [started |-> TRUE, name |-> cmd, op |-> "ui.action",
                     trace_id |-> Some(ResolveTraceId(fresh)), status |-> "unset",
                     finishes |-> 0]
          /\ guard' = [guard EXCEPT !.trace_id = Some(ResolveTraceId(fresh))]
          /\ generated' = IF IsSome(trace_id) THEN None ELSE Some(fresh)
    /\ pc' = "new_scope"
    /\ UNCHANGED <<debug, env, argv, program, args, cmd, err, client, handler, scope,
                   messages, stderr, child, spawns, status, finished, wrapperExit,
                   depth, parent, interrupted>>

\* lines 61-77: the scope is bound and the Guard returned
NewConfigureScope ==
    /\ pc = "new_scope"
    /\ scope' = [span |-> TRUE, user |-> env["USER"]]
    /\ guard' = [created |-> TRUE, live |-> TRUE, transaction |-> TRUE,
                 trace_id |-> guard.trace_id, cmd |-> cmd]
    /\ pc' = "spawn_ok"
    /\ UNCHANGED <<debug, env, argv, program, args, cmd, err, client, handler, txn,
                   messages, stderr, child, spawns, status, finished, wrapperExit,
                   depth, parent, generated, interrupted>>

-----------------------------------------------------------------------------
(* main, Ok arm, lines 111-119 *)

\* a slip of line 114: ODX_TRACE_ID is set only when the child would not inherit one
ChildEnvOkIfAbsent ==
    IF IsSome(env[TRACE_ID_KEY]) THEN env
    ELSE [env EXCEPT ![TRACE_ID_KEY] = Some(SerializeTraceId(Unwrap(guard.trace_id)))]

\* line 114: the child's environment is inherited, with ODX_TRACE_ID overridden
ChildEnvOk == [env EXCEPT ![TRACE_ID_KEY] = Some(SerializeTraceId(Unwrap(guard.trace_id)))]

\* a slip of lines 112-113: the child is launched by the basename used for the label
SpawnOkBasename ==
    /\ pc = "spawn_ok"
    /\ spawns' = [spawns EXCEPT !.ok = @ + 1]
    /\ child' = Some([program |-> basename(program), args |-> args, env |-> ChildEnvOk])
    /\ pc' = "wait_ok"
    /\ UNCHANGED <<debug, env, argv, program, args, cmd, err, client, handler, txn,
                   scope, guard, messages, stderr, status, finished, wrapperExit,
                   depth, parent, generated, interrupted>>

\* lines 112-115: Command::status spawns the child, then blocks on it
SpawnOk ==
    /\ pc = "spawn_ok"
    /\ spawns' = [spawns EXCEPT !.ok = @ + 1]
    /\ child' = Some([program |-> program, args |-> args, env |-> ChildEnvOk])
    /\ pc' = "wait_ok"
    /\ UNCHANGED <<debug, env, argv, program, args, cmd, err, client, handler, txn,
                   scope, guard, messages, stderr, status, finished, wrapperExit,
                   depth, parent, generated, interrupted>>

\* a slip of lines 112-116: a failed spawn falls back to the launch of line 122
SpawnOkFailsFallsBack ==
    /\ pc = "spawn_ok"
    /\ spawns' = [spawns EXCEPT !.ok = @ + 1]
    /\ pc' = "spawn_err"
    /\ UNCHANGED <<debug, env, argv, program, args, cmd, err, client, handler, txn,
                   scope, guard, messages, stderr, child, status, finished,
                   wrapperExit, depth, parent, generated, interrupted>>

\* lines 112-116: the spawn fails, unwrap panics and main unwinds with guard alive
SpawnOkFails ==
    /\ pc = "spawn_ok"
    /\ spawns' = [spawns EXCEPT !.ok = @ + 1]
    /\ pc' = "unwind"
    /\ UNCHANGED <<debug, env, argv, program, args, cmd, err, client, handler, txn,
                   scope, guard, messages, stderr, child, status, finished,
                   wrapperExit, depth, parent, generated, interrupted>>

\* a slip of lines 115-118: the status is used for the exit before guard.finish
ChildExitOkThenExit ==
    /\ pc = "wait_ok"
    /\ \E s \in ExitStatuses : status' = Some(s)
    /\ pc' = "exit"
    /\ UNCHANGED <<debug, env, argv, program, args, cmd, err, client, handler, txn,
                   scope, guard, messages, stderr, child, spawns, finished,
                   wrapperExit, depth, parent, generated, interrupted>>

\* line 115: the child terminates and status() returns its ExitStatus
ChildExitOk ==
    /\ pc = "wait_ok"
    /\ \E s \in ExitStatuses : status' = Some(s)
    /\ pc' = "finish"
    /\ UNCHANGED <<debug, env, argv, program, args, cmd, err, client, handler, txn,
                   scope, guard, messages, stderr, child, spawns, finished,
                   wrapperExit, depth, parent, generated, interrupted>>

-----------------------------------------------------------------------------
(* Guard::finish, lines 80-92 *)

\* lines 84-90: the SpanStatus given to the transaction
FinishStatus(s) == IF Success(s) THEN "Ok" ELSE "UnknownError"

\* a slip of lines 84-90: the else is missing, so the failure message always follows
FinishMessagesNoElse(c, s) ==
    (IF Success(s)
     THEN <<[level |-> "Info",
             text |-> [cmd |-> c, verb |-> " succeeded ", status |-> Some(Display(s))]]>>
     ELSE <<>>)
    \o <<[level |-> "Warning",
          text |-> [cmd |-> c, verb |-> " failed ", status |-> Some(Display(s))]]>>

\* lines 84-90: the message captured
FinishMessages(c, s) ==
    IF Success(s)
    THEN <<[level |-> "Info",
            text |-> [cmd |-> c, verb |-> " succeeded ", status |-> Some(Display(s))]]>>
    ELSE <<[level |-> "Warning",
            text |-> [cmd |-> c, verb |-> " failed ", status |-> Some(Display(s))]]>>

\* line 117 and lines 80-91: guard is moved into finish, which takes the transaction
Finish ==
    /\ pc = "finish"
    /\ finished' = Append(finished, Unwrap(status))
    /\ IF guard.transaction
       THEN /\ guard' = [guard EXCEPT !.transaction = FALSE]
            /\ txn' = [txn EXCEPT !.status = FinishStatus(Unwrap(status)),
                                  !.finishes = @ + 1]
            /\ messages' = messages \o FinishMessages(guard.cmd, Unwrap(status))
            /\ pc' = "finish_drop"
       ELSE \* self.transaction.take().unwrap() panics and self is dropped
            /\ pc' = "unwind"
            /\ UNCHANGED <<guard, txn, messages>>
    /\ UNCHANGED <<debug, env, argv, program, args, cmd, err, client, handler, scope,
                   stderr, child, spawns, status, wrapperExit, depth, parent,
                   generated, interrupted>>

-----------------------------------------------------------------------------
(* Drop for Guard, lines 95-103 *)

\* a slip of line 99: the abandonment is reported at the level of a failed child
DropMessagesWarning(c) ==
    <<[level |-> "Warning", text |-> [cmd |-> c, verb |-> " did not exit", status |-> None]]>>

\* line 99: the message captured when the transaction was still held
DropMessages(c) ==
    <<[level |-> "Error", text |-> [cmd |-> c, verb |-> " did not exit", status |-> None]]>>

\* a slip of line 97: drop reports without looking at whether finish took the transaction
DropTakesAlways(g) == TRUE

\* a slip of line 97: drop never reports
DropTakesNever(g) == FALSE

\* line 97: whether drop takes a transaction out of the guard
DropTakes(g) == g.transaction

\* lines 96-102, then the fields are dropped: the client is released.  It runs at
\* the end of Guard::finish (self goes out of scope) and when main unwinds.
Drop ==
    /\ pc \in {"finish_drop", "unwind"}
    /\ IF DropTakes(guard)
       THEN /\ txn' = [txn EXCEPT !.status = "UnknownError", !.finishes = @ + 1]
            /\ messages' = messages \o DropMessages(guard.cmd)
       ELSE UNCHANGED <<txn, messages>>
    /\ guard' = [guard EXCEPT !.transaction = FALSE, !.live = FALSE]
    /\ client' = "closed"
    /\ IF pc = "finish_drop"
       THEN pc' = "exit" /\ UNCHANGED wrapperExit
       ELSE pc' = "panicked" /\ wrapperExit' = Some(PanicExitCode)
    /\ UNCHANGED <<debug, env, argv, program, args, cmd, err, handler, scope, stderr,
                   child, spawns, status, finished, depth, parent, generated, interrupted>>

-----------------------------------------------------------------------------
(* main, Err arm, lines 120-123 *)

\* line 121
MainErr ==
    /\ pc = "main_err"
    /\ stderr' = Append(stderr, Unwrap(err))
    /\ pc' = "spawn_err"
    /\ UNCHANGED <<debug, env, argv, program, args, cmd, err, client, handler, txn,
                   scope, guard, messages, child, spawns, status, finished,
                   wrapperExit, depth, parent, generated, interrupted>>

\* line 122: the child inherits the environment unchanged
ChildEnvErr == env

\* a slip of line 122: the child is launched by the basename used for the label
SpawnErrBasename ==
    /\ pc = "spawn_err"
    /\ spawns' = [spawns EXCEPT !.err = @ + 1]
    /\ child' = Some([program |-> basename(program), args |-> args, env |-> ChildEnvErr])
    /\ pc' = "wait_err"
    /\ UNCHANGED <<debug, env, argv, program, args, cmd, err, client, handler, txn,
                   scope, guard, messages, stderr, status, finished, wrapperExit,
                   depth, parent, generated, interrupted>>

SpawnErr ==
    /\ pc = "spawn_err"
    /\ spawns' = [spawns EXCEPT !.err = @ + 1]
    /\ child' = Some([program |-> program, args |-> args, env |-> ChildEnvErr])
    /\ pc' = "wait_err"
    /\ UNCHANGED <<debug, env, argv, program, args, cmd, err, client, handler, txn,
                   scope, guard, messages, stderr, status, finished, wrapperExit,
                   depth, parent, generated, interrupted>>

\* line 122: the spawn fails and unwrap panics; no Guard exists
SpawnErrFails ==
    /\ pc = "spawn_err"
    /\ spawns' = [spawns EXCEPT !.err = @ + 1]
    /\ pc' = "panicked"
    /\ wrapperExit' = Some(PanicExitCode)
    /\ UNCHANGED <<debug, env, argv, program, args, cmd, err, client, handler, txn,
                   scope, guard, messages, stderr, child, status, finished, depth,
                   parent, generated, interrupted>>

ChildExitErr ==
    /\ pc = "wait_err"
    /\ \E s \in ExitStatuses : status' = Some(s)
    /\ pc' = "exit"
    /\ UNCHANGED <<debug, env, argv, program, args, cmd, err, client, handler, txn,
                   scope, guard, messages, stderr, child, spawns, finished,
                   wrapperExit, depth, parent, generated, interrupted>>

-----------------------------------------------------------------------------
(* main, lines 125-127 *)

\* a slip of lines 125-126: the wrapper exits by success or failure, not by the code
ExitWithFlag(s) == IF Success(s) THEN 0 ELSE 1

\* a slip of lines 125-127: a signalled child is turned into the shell's 128 + signal
ExitWithSignalCode(s) == IF IsSome(Code(s)) THEN Unwrap(Code(s)) % 256 ELSE 128 + s.n

\* the status the process ends with: exit(code), or 0 when main returns
ExitWith(s) == IF IsSome(Code(s)) THEN Unwrap(Code(s)) % 256 ELSE ReturnExitCode

\* a slip of lines 125-127: the child is waited on again for the exit code
ExitRewaits ==
    /\ pc = "exit"
    /\ \E s \in ExitStatuses :
          /\ status' = Some(s)
          /\ wrapperExit' = Some(ExitWith(s))
          /\ pc' = IF IsSome(Code(s)) THEN "exited" ELSE "returned"
    /\ UNCHANGED <<debug, env, argv, program, args, cmd, err, client, handler, txn,
                   scope, guard, messages, stderr, child, spawns, finished,
                   depth, parent, generated, interrupted>>

Exit ==
    /\ pc = "exit"
    /\ wrapperExit' = Some(ExitWith(Unwrap(status)))
    /\ pc' = IF IsSome(Code(Unwrap(status))) THEN "exited" ELSE "returned"
    /\ UNCHANGED <<debug, env, argv, program, args, cmd, err, client, handler, txn,
                   scope, guard, messages, stderr, child, spawns, status, finished,
                   depth, parent, generated, interrupted>>

-----------------------------------------------------------------------------
(* The child is itself the wrapper: follow it.  Its arguments are the parent's *)
(* args, its environment the one the parent spawned it with.                   *)

Descend ==
    /\ pc \in {"wait_ok", "wait_err"}
    /\ depth < MaxDepth
    /\ depth' = depth + 1
    /\ parent' = IF pc = "wait_ok" THEN guard.trace_id ELSE None
    /\ env' = Unwrap(child).env
    /\ argv' = Unwrap(child).args
    /\ pc' = "main"
    /\ program' = <<>>
    /\ args' = <<>>
    /\ cmd' = <<>>
    /\ err' = None
    /\ client' = "none"
    /\ handler' = FALSE
    /\ txn' = NoTxn
    /\ scope' = [span |-> FALSE, user |-> None]
    /\ guard' = NoGuard
    /\ messages' = <<>>
    /\ stderr' = <<>>
    /\ child' = None
    /\ spawns' = [ok |-> 0, err |-> 0]
    /\ status' = None
    /\ finished' = <<>>
    /\ wrapperExit' = None
    /\ generated' = None
    /\ interrupted' = FALSE
    /\ UNCHANGED debug

-----------------------------------------------------------------------------

Next ==
    \/ ParseArgs
    \/ NewLabel
    \/ NewInit
    \/ NewHandlerOk
    \/ NewHandlerErr
    \/ NewStartTransaction
    \/ NewConfigureScope
    \/ SpawnOk
    \/ SpawnOkFails
    \/ ChildExitOk
    \/ Finish
    \/ Drop
    \/ MainErr
    \/ SpawnErr
    \/ SpawnErrFails
    \/ ChildExitErr
    \/ Exit

Spec == Init /\ [][Next]_vars

\* every step of the single thread is eventually taken, and the child terminates
FairSpec == Spec /\ WF_vars(Next)

\* the label of longer program paths, over more characters: main up to line 44
InitBasename ==
    /\ pc = "main"
    /\ debug = FALSE
    /\ env = [k \in {"ODX_SANDBOX_DSN", "ODX_DSN", "ODX_TRACE_ID", "USER"} |-> None]
    /\ argv \in {<<p>> \o a : p \in SeqsUpTo(PathChars \cup {"x"}, MaxBaseLen),
                             a \in {<<>>, <<<<"h", "i">>>>}}
    /\ program = <<>>
    /\ args = <<>>
    /\ cmd = <<>>
    /\ err = None
    /\ client = "none"
    /\ handler = FALSE
    /\ txn = NoTxn
    /\ scope = [span |-> FALSE, user |-> None]
    /\ guard = NoGuard
    /\ messages = <<>>
    /\ stderr = <<>>
    /\ child = None
    /\ spawns = [ok |-> 0, err |-> 0]
    /\ status = None
    /\ finished = <<>>
    /\ wrapperExit = None
    /\ depth = 0
    /\ parent = None
    /\ generated = None
    /\ interrupted = FALSE

NextBasename == ParseArgs \/ NewLabel

SpecBasename == InitBasename /\ [][NextBasename]_vars

NextNested == Next \/ Descend

SpecNested == Init /\ [][NextNested]_vars

-----------------------------------------------------------------------------
(* An interrupt signal (SIGINT) is delivered to the wrapper process.  With the *)
(* handler of line 55 installed the no-op closure runs and main goes on (the  *)
(* blocking wait is restarted); without it the default disposition ends the   *)
(* process there, with no exit code and no unwinding.                          *)

\* a slip of line 55: the handler installed does not keep the process alive
InterruptKillsAlways == TRUE

\* line 55: the default disposition applies until set_handler has succeeded
InterruptKills == ~handler

Interrupt ==
    /\ pc \notin {"exited", "returned", "panicked", "killed"}
    /\ interrupted' = TRUE
    /\ IF InterruptKills THEN pc' = "killed" ELSE UNCHANGED pc
    /\ UNCHANGED <<debug, env, argv, program, args, cmd, err, client, handler, txn,
                   scope, guard, messages, stderr, child, spawns, status, finished,
                   wrapperExit, depth, parent, generated>>

NextInterrupt == Next \/ Interrupt

SpecInterrupt == Init /\ [][NextInterrupt]_vars

-----------------------------------------------------------------------------
(* Properties *)

\* the wrapper process has ended: exit(code), return from main, or panic
Terminated == pc \in {"exited", "returned", "panicked"}

IsOutcome(m) == m.text.verb \in {" succeeded ", " failed "}

IsAbandon(m) == m.text.verb = " did not exit"

Count(P(_), seq) == Cardinality({i \in 1..Len(seq) : P(seq[i])})

\* C1: at every point of every run the transaction has been finalized at most
\* once (Guard::finish and Drop never both finalize it), only a started
\* transaction is finalized, and once the process has ended after a Guard was
\* created the transaction has been finalized exactly once.
C1_FinalizedExactlyOnce ==
    /\ txn.finishes <= 1
    /\ Count(IsOutcome, messages) + Count(IsAbandon, messages) = txn.finishes
    /\ txn.finishes = 1 => txn.started /\ ~guard.transaction
    /\ Terminated /\ guard.created => txn.finishes = 1

\* C1 witness: the normal path has ended; finish finalized and Drop ran after it
C1_Witness ==
    /\ pc = "exited"
    /\ guard.created /\ ~guard.live
    /\ Len(finished) = 1
    /\ txn.finishes = 1

\* C2: every started transaction is eventually finalized with a terminal
\* status, whichever way the run goes after Guard::new succeeded (the child
\* exits with success, with failure, by a signal, or the spawn fails).
C2_StartedLeadsToFinalized ==
    txn.started ~> (txn.finishes >= 1 /\ txn.status \in {"Ok", "UnknownError"})

\* C2 witness: the spawn failed, main unwound and the transaction was finalized
C2_Witness ==
    /\ pc = "panicked"
    /\ txn.started
    /\ spawns.ok = 1 /\ child = None
    /\ txn.finishes = 1 /\ txn.status = "UnknownError"

\* C3: once the child has terminated with a numeric exit code c and the wrapper
\* has ended, the wrapper has called exit with exactly c, on the telemetry path
\* and on the fallback path alike.
C3_ExitCodePropagated ==
    (Terminated /\ IsSome(status) /\ Unwrap(status).kind = "exited")
        => /\ pc = "exited"
           /\ wrapperExit = Some(Unwrap(status).n)

\* C3 witness: on the telemetry path a child that exited 2 made the wrapper exit 2
C3_Witness ==
    /\ pc = "exited"
    /\ guard.created
    /\ status = Some([kind |-> "exited", n |-> 2])
    /\ wrapperExit = Some(2)

\* C4: when session creation failed (no sink address, or the handler could not
\* be installed) the error is written to standard error, no transaction is
\* started and nothing is reported, the child is launched once, on the fallback
\* arm, with the program and arguments as given and the environment as
\* inherited, and the wrapper exits with the child's exit code when it has one.
C4_FallbackRunsChild ==
    IsSome(err) =>
        /\ ~txn.started /\ txn.finishes = 0 /\ messages = <<>> /\ ~guard.created
        /\ spawns.ok = 0
        /\ pc # "main_err" => stderr = <<Unwrap(err)>>
        /\ pc \in {"wait_err", "exit", "exited", "returned"} =>
              /\ spawns.err = 1
              /\ child = Some([program |-> Head(argv), args |-> Tail(argv), env |-> env])
        /\ Terminated => spawns.err = 1
        /\ (Terminated /\ IsSome(status) /\ Unwrap(status).kind = "exited") =>
              wrapperExit = Some(Unwrap(status).n)

\* C4 witness: the handler could not be installed, the child of a path with a
\* directory part ran all the same and its code 1 became the wrapper's
C4_Witness ==
    /\ err = Some("ctrlc::Error")
    /\ pc = "exited"
    /\ IsSome(child) /\ Unwrap(child).program = <<"/", "e">>
    /\ status = Some([kind |-> "exited", n |-> 1])
    /\ wrapperExit = Some(1)

\* C5: for every exit status passed to Guard::finish exactly one outcome
\* message is emitted, the "succeeded" one or the "failed" one, and no "did not
\* exit" message is emitted for that session, then or later.
C5_ExactlyOneOutcomeMessage ==
    /\ Count(IsOutcome, messages) = Len(finished)
    /\ Len(finished) >= 1 => Count(IsAbandon, messages) = 0
    /\ Len(finished) >= 1 =>
          Count(LAMBDA m : m.text.verb = " succeeded ", messages)
              + Count(LAMBDA m : m.text.verb = " failed ", messages) = 1

\* C5 witness: finish was given the status of a child killed by a signal, and the
\* guard has since been dropped
C5_Witness ==
    /\ pc = "returned"
    /\ Len(finished) = 1 /\ finished[1].kind = "signaled"
    /\ ~guard.live
    /\ Len(messages) = 1

\* C6: Guard::finish sets the status Ok and the level Info exactly when the
\* child exited with code 0; for every other exit code and for every signal it
\* sets UnknownError and Warning; either way the message carries the command
\* label and the rendering of the exit status.
C6_FinishClassifies ==
    Len(finished) = 1 =>
        LET s == finished[1]
            m == messages[1]
            zero == s.kind = "exited" /\ s.n = 0
        IN  /\ Len(messages) = 1
            /\ txn.status = "Ok" <=> zero
            /\ m.level = "Info" <=> zero
            /\ m.text.verb = " succeeded " <=> zero
            /\ ~zero => /\ txn.status = "UnknownError"
                        /\ m.level = "Warning"
                        /\ m.text.verb = " failed "
            /\ m.text.cmd = cmd /\ txn.name = cmd
            /\ m.text.status =
                   Some([prefix |-> IF s.kind = "exited" THEN "exit status: " ELSE "signal: ",
                         n |-> s.n])

\* C6 witness: a child that exited 1 was reported UnknownError at level Warning
C6_Witness ==
    /\ Len(finished) = 1
    /\ finished[1] = [kind |-> "exited", n |-> 1]
    /\ txn.status = "UnknownError"
    /\ Len(messages) = 1 /\ messages[1].level = "Warning"

\* the child was launched on the telemetry arm of main
SpawnedWithSession == IsSome(child) /\ spawns.ok = 1

\* the inbound ODX_TRACE_ID is absent or not 32 hex digits
InboundInvalid ==
    \/ env[TRACE_ID_KEY] = None
    \/ Len(Unwrap(env[TRACE_ID_KEY])) # 2 * TraceIdBytes
    \/ \E i \in 1..Len(Unwrap(env[TRACE_ID_KEY])) : ~IsHex(Unwrap(env[TRACE_ID_KEY])[i])

\* 32 lower-case hex digits
WellFormed(str) ==
    /\ Len(str) = 2 * TraceIdBytes
    /\ \A i \in 1..Len(str) : \E j \in 1..16 : HexLower[j] = str[i]

\* C7, as a state predicate: the session's trace_id is the one the transaction
\* was started with, and the child's ODX_TRACE_ID is its serialisation
C7_Propagated ==
    /\ guard.created => IsSome(guard.trace_id) /\ guard.trace_id = txn.trace_id
    /\ SpawnedWithSession =>
          Unwrap(child).env[TRACE_ID_KEY] = Some(SerializeTraceId(Unwrap(guard.trace_id)))

\* C7: when a session is created the child's ODX_TRACE_ID is the serialisation
\* of the session's trace_id, which is the identifier the transaction was
\* started with, and no step from the start of the transaction on (the spawn,
\* finish, drop, exit) changes the session's trace_id.
C7_TraceIdPropagatedUnchanged ==
    /\ []C7_Propagated
    /\ [][txn.started => guard'.trace_id = guard.trace_id /\ txn'.trace_id = txn.trace_id]_vars

\* C7 witness: the inbound value was valid but in upper case; the child was given
\* the serialisation of the parsed identifier, not the inbound text
C7_Witness ==
    /\ pc = "wait_ok"
    /\ env[TRACE_ID_KEY] = Some(Rep("A", 2 * TraceIdBytes))
    /\ guard.trace_id = Some(Rep(170, TraceIdBytes))
    /\ Unwrap(child).env[TRACE_ID_KEY] = Some(Rep("a", 2 * TraceIdBytes))

\* C8 as stated: in every run in which the inbound ODX_TRACE_ID is absent or
\* malformed, a spawned child has ODX_TRACE_ID set to a well-formed identifier,
\* never unset and never the malformed inbound value.
C8_AsStated ==
    (IsSome(child) /\ InboundInvalid) =>
        /\ IsSome(Unwrap(child).env[TRACE_ID_KEY])
        /\ WellFormed(Unwrap(Unwrap(child).env[TRACE_ID_KEY]))
        /\ Unwrap(child).env[TRACE_ID_KEY] # env[TRACE_ID_KEY]

\* C8, amended: in every run in which the session is created and the inbound
\* ODX_TRACE_ID is absent or malformed, the child is spawned with ODX_TRACE_ID
\* set to the serialisation of a freshly generated identifier, which is
\* well-formed; that child never sees the variable unset or the inbound value.
C8_FreshIdWithSession ==
    (SpawnedWithSession /\ InboundInvalid) =>
        /\ IsSome(generated)
        /\ guard.trace_id = generated
        /\ IsSome(Unwrap(child).env[TRACE_ID_KEY])
        /\ WellFormed(Unwrap(Unwrap(child).env[TRACE_ID_KEY]))
        /\ ParseTraceId(Unwrap(Unwrap(child).env[TRACE_ID_KEY])) = generated
        /\ Unwrap(child).env[TRACE_ID_KEY] # env[TRACE_ID_KEY]

\* C8 witness: the inbound value had a non-hex digit and the child was given the
\* generated identifier 1b1b...
C8_Witness ==
    /\ SpawnedWithSession
    /\ env[TRACE_ID_KEY] = Some(Append(Rep("a", 2 * TraceIdBytes - 1), "g"))
    /\ generated = Some(Rep(27, TraceIdBytes))
    /\ Unwrap(Unwrap(child).env[TRACE_ID_KEY])[1] = "1"
    /\ Unwrap(Unwrap(child).env[TRACE_ID_KEY])[2] = "b"

\* C9: if the inbound ODX_TRACE_ID holds a valid identifier x, the session's
\* trace id is x and the value handed to the child parses back to x; a wrapper
\* that is the child of a wrapper with a session resolves its parent's trace
\* id, at every nesting depth.
C9_RoundTripAndNesting ==
    /\ (txn.started /\ ~InboundInvalid) =>
          /\ generated = None
          /\ guard.trace_id = ParseTraceId(Unwrap(env[TRACE_ID_KEY]))
          /\ env[TRACE_ID_KEY] = Some(Rep("A", 2 * TraceIdBytes)) =>
                 guard.trace_id = Some(Rep(170, TraceIdBytes))
          /\ env[TRACE_ID_KEY] =
                 Some([i \in 1..(2 * TraceIdBytes) |-> IF i % 2 = 1 THEN "1" ELSE "b"]) =>
                 guard.trace_id = Some(Rep(27, TraceIdBytes))
    /\ (SpawnedWithSession /\ ~InboundInvalid) =>
          ParseTraceId(Unwrap(Unwrap(child).env[TRACE_ID_KEY]))
              = ParseTraceId(Unwrap(env[TRACE_ID_KEY]))
    /\ (txn.started /\ IsSome(parent)) => guard.trace_id = parent

\* C9 witness: two levels down, under a chain of sessions whose root generated
\* 1b1b..., the session has the trace id of its parent
C9_Witness ==
    /\ depth = 2
    /\ guard.created
    /\ parent = Some(Rep(27, TraceIdBytes))
    /\ guard.trace_id = parent
    /\ SpawnedWithSession

\* C10: a session that was constructed and destroyed without Guard::finish ever
\* being called has produced exactly one finalize call, with the status
\* UnknownError and one error-level "did not exit" message; and a "did not
\* exit" message exists only when finish was never called.
C10_AbandonedOnce ==
    /\ (guard.created /\ ~guard.live /\ finished = <<>>) =>
          /\ txn.finishes = 1
          /\ txn.status = "UnknownError"
          /\ messages = <<[level |-> "Error",
                           text |-> [cmd |-> guard.cmd, verb |-> " did not exit",
                                     status |-> None]]>>
    /\ Count(IsAbandon, messages) >= 1 => finished = <<>> /\ ~guard.live

\* C10 witness: the spawn failed with a session alive and the wrapper panicked
C10_Witness ==
    /\ pc = "panicked"
    /\ guard.created /\ ~guard.live
    /\ finished = <<>>
    /\ Len(messages) = 1 /\ messages[1].level = "Error"

\* C11: once a session is Active an interrupt delivered to the wrapper, at
\* whatever point, does not end the wrapper; when the child has terminated and
\* the wrapper has ended after an interrupt, the child's status was passed to
\* Guard::finish, the transaction was finalized once, and the wrapper called
\* exit with the child's code when the child had one.
C11_InterruptDoesNotEndSession ==
    /\ txn.started => pc # "killed"
    /\ (guard.created /\ interrupted /\ Terminated /\ IsSome(status)) =>
          /\ finished = <<Unwrap(status)>>
          /\ txn.finishes = 1
          /\ Count(IsOutcome, messages) = 1
          /\ Unwrap(status).kind = "exited" =>
                 pc = "exited" /\ wrapperExit = Some(Unwrap(status).n)

\* C11 witness: an interrupt was delivered while the wrapper was blocked on the
\* child; the child then exited 1 and the wrapper reported it and exited 1
C11_Witness ==
    /\ interrupted
    /\ guard.created
    /\ pc = "exited"
    /\ finished = <<[kind |-> "exited", n |-> 1]>>
    /\ wrapperExit = Some(1)

\* what the wrapper ends with, from the child's behaviour alone: the panic
\* status when the spawn failed, the child's code when it has one, else 0
EndsWith(spawned, st) ==
    IF ~spawned THEN Some(101)
    ELSE IF Unwrap(st).kind = "exited" THEN Some(Unwrap(st).n)
    ELSE Some(0)

Slashes(p) == {i \in 1..Len(p) : p[i] = "/"}

\* the basename Guard::new computed: the label without " " and the joined args
LabelBase == SubSeq(cmd, 1, Len(cmd) - 1 - Len(Join(args)))

\* C13: for a path with at least one '/' basename returns what follows the last
\* '/' (the empty string when the path ends in '/'), for a path with no '/' it
\* returns the path unchanged, and the result never contains '/'.  Checked on the
\* program path, once Guard::new has computed the label from it.
C13_BasenameAfterLastSlash ==
    (Len(argv) > 0 /\ pc \notin {"main", "new_label"}) =>
        LET p == Head(argv)
            r == LabelBase
        IN  /\ cmd = r \o <<" ">> \o Join(args)
            /\ Slashes(r) = {}
            /\ Slashes(p) = {} => r = p
            /\ Slashes(p) # {} =>
                  LET last == CHOOSE i \in Slashes(p) : \A j \in Slashes(p) : j <= i
                  IN  /\ Len(r) = Len(p) - last
                      /\ \A k \in 1..Len(r) : r[k] = p[last + k]
            /\ (Len(p) > 0 /\ p[Len(p)] = "/") => r = <<>>

\* C13 witness: the path "/e/x" gave the basename "x"
C13_Witness ==
    /\ pc = "new_init"
    /\ program = <<"/", "e", "/", "x">>
    /\ LabelBase = <<"x">>

\* C14 as stated: session creation resolves the sink address, opens the
\* client, starts the transaction and only then installs the interrupt
\* handler, so the handler is never installed without a started transaction.
C14_AsStated ==
    /\ client # "none" => IsSome(dsn)
    /\ txn.started => client # "none"
    /\ handler => txn.started

\* C14, amended: session creation resolves the sink address, opens the client,
\* installs the no-op interrupt handler and only then starts the transaction:
\* the client is opened with the sink address resolved and neither of the
\* others done, the handler is installed with the client open and no
\* transaction started, and the transaction is started with the handler
\* installed.
C14_HandlerBeforeTransaction ==
    [][ /\ (client = "none" /\ client' # "none") =>
              IsSome(dsn) /\ ~handler /\ ~handler' /\ ~txn.started /\ ~txn'.started
        /\ (~handler /\ handler') =>
              client = "open" /\ ~txn.started /\ ~txn'.started
        /\ (~txn.started /\ txn'.started) =>
              handler /\ client = "open" ]_vars

\* C14 witness: the handler is installed and the transaction is not yet started
C14_Witness ==
    /\ pc = "new_txn"
    /\ client = "open"
    /\ handler
    /\ ~txn.started

\* C15: on the telemetry path the transaction is started before the child is
\* spawned; the outcome is reported and the transaction finalized by finish
\* only once the child has exited; the guard is dropped and the client released
\* before main reaches the exit of lines 125-127; and the wrapper never exits
\* with the child's code while a started transaction is unfinalized.
C15_TelemetryPathOrder ==
    /\ spawns.ok >= 1 => txn.started
    /\ (pc \in {"spawn_ok", "wait_ok"}) => txn.started /\ txn.finishes = 0 /\ client = "open"
    /\ Len(finished) >= 1 => IsSome(child) /\ IsSome(status)
    /\ Count(IsOutcome, messages) >= 1 => IsSome(status)
    /\ (guard.created /\ pc \in {"exit", "exited", "returned"}) =>
          /\ finished = <<Unwrap(status)>>
          /\ txn.finishes = 1
          /\ ~guard.live
          /\ client = "closed"
    /\ pc = "exited" => ~(txn.started /\ txn.finishes = 0)

\* C15 witness: the child exited 0, was reported Ok, the client was released and
\* the wrapper exited 0
C15_Witness ==
    /\ pc = "exited"
    /\ guard.created
    /\ txn.status = "Ok" /\ txn.finishes = 1
    /\ client = "closed"
    /\ wrapperExit = Some(0)

\* Command::status was called and returned an error: no child exists
SpawnFailed == spawns.ok + spawns.err >= 1 /\ child = None

\* C16: when the spawn fails the wrapper panics, on either arm: there is no
\* second launch, no status is obtained or reported by finish, and the process
\* ends with the panic status, not 0; a session that was Active ends Abandoned
\* (finalized once by Drop, UnknownError, one error-level "did not exit"
\* message) and is never Finished.
C16_SpawnFailureIsFatal ==
    SpawnFailed =>
        /\ pc \in {"unwind", "panicked"}
        /\ spawns.ok + spawns.err = 1
        /\ status = None /\ finished = <<>>
        /\ Count(IsOutcome, messages) = 0
        /\ pc = "unwind" => guard.created /\ guard.live /\ wrapperExit = None
        /\ pc = "panicked" =>
              /\ wrapperExit = Some(101)
              /\ guard.created =>
                    /\ ~guard.live
                    /\ txn.finishes = 1 /\ txn.status = "UnknownError"
                    /\ Len(messages) = 1
                    /\ messages[1].level = "Error" /\ IsAbandon(messages[1])
              /\ ~guard.created => messages = <<>> /\ ~txn.started

\* C16 witness: session creation had failed, the fallback spawn failed too and
\* the wrapper panicked
C16_Witness ==
    /\ pc = "panicked"
    /\ IsSome(err)
    /\ spawns.err = 1 /\ child = None
    /\ wrapperExit = Some(101)

\* C17: whenever a transaction has been started and not yet finalized, the
\* telemetry client is open and the interrupt handler is installed; and
\* whenever Guard::new has returned an error, no transaction has been started,
\* so none is left unfinalized, and no Guard exists.
C17_UnfinalizedImpliesClientAndHandler ==
    /\ (txn.started /\ txn.finishes = 0) => client = "open" /\ handler
    /\ IsSome(err) => ~txn.started /\ txn.finishes = 0 /\ ~guard.created /\ client # "open"
    /\ err = Some("VarError::NotPresent") => client = "none" /\ ~handler
    /\ err = Some("ctrlc::Error") => client = "closed" /\ ~handler

\* C17 witness: the wrapper is blocked on the child with the transaction open
C17_Witness ==
    /\ pc = "wait_ok"
    /\ txn.started /\ txn.finishes = 0
    /\ client = "open"
    /\ handler

\* C18, as a state predicate: at most one Command::status call, on one arm
\* only and exactly one once main has ended past its argument parsing; the
\* status it returned is the one finish was given and the one the exit is
\* chosen from
C18_OneStatus ==
    /\ spawns.ok + spawns.err <= 1
    /\ (Terminated /\ Len(argv) > 0) => spawns.ok + spawns.err = 1
    /\ spawns.ok = 1 => guard.created /\ err = None
    /\ spawns.err = 1 => ~guard.created /\ IsSome(err)
    /\ IsSome(status) => IsSome(child)
    /\ Len(finished) <= 1
    /\ Len(finished) = 1 => spawns.ok = 1 /\ finished[1] = Unwrap(status)
    /\ pc = "exited" =>
          Unwrap(status).kind = "exited" /\ wrapperExit = Some(Unwrap(status).n)
    /\ pc = "returned" => Unwrap(status).kind = "signaled"

\* C18: in every run the child is spawned and waited on at most once (exactly
\* once unless the wrapper aborts earlier), on the telemetry arm or on the
\* fallback arm and never on both; the exit status obtained is never replaced,
\* and it is the one passed to Guard::finish and the one the wrapper's exit code
\* is taken from.
C18_SpawnedAndWaitedOnce ==
    /\ []C18_OneStatus
    /\ [][IsSome(status) => status' = status /\ spawns' = spawns /\ child' = child]_vars

\* C18 witness: on the fallback arm one child ran, exited 2, and the wrapper
\* exited 2
C18_Witness ==
    /\ pc = "exited"
    /\ spawns = [ok |-> 0, err |-> 1]
    /\ status = Some([kind |-> "exited", n |-> 2])
    /\ wrapperExit = Some(2)

\* C19: when the child was killed by a signal, so that its status has no
\* numeric code, the wrapper does not call exit: main returns and the process
\* ends with status 0, on either arm; on the telemetry arm that same run was
\* reported as failed (UnknownError, one warning-level "failed" message).
C19_SignalledChildEndsWithZero ==
    /\ (IsSome(status) /\ Unwrap(status).kind = "signaled") =>
          /\ pc # "exited"
          /\ Terminated => pc = "returned" /\ wrapperExit = Some(0)
          /\ Len(finished) = 1 =>
                /\ txn.status = "UnknownError"
                /\ Len(messages) = 1
                /\ messages[1].level = "Warning"
                /\ messages[1].text.verb = " failed "
          /\ (Terminated /\ guard.created) => Len(finished) = 1
    /\ pc = "returned" => Unwrap(status).kind = "signaled" /\ wrapperExit = Some(0)

\* C19 witness: with a session, the child was killed by signal 2, the run was
\* reported failed and the wrapper ended with 0
C19_Witness ==
    /\ guard.created
    /\ pc = "returned"
    /\ status = Some([kind |-> "signaled", n |-> 2])
    /\ txn.status = "UnknownError"
    /\ messages[1].level = "Warning"
    /\ wrapperExit = Some(0)

====
